---- MODULE Spec2Model ----
(***************************************************************************)
(* A model of clawdia's OAuth credential lifecycle (bot/clawdia/auth.py)   *)
(* and of its single-user gate (bot/clawdia/security.py).                  *)
(*                                                                         *)
(* Python values that cross a trust boundary (the credential file, the     *)
(* token endpoint's JSON body) are dynamically typed, so they are modelled *)
(* as tagged values [t |-> tag, v |-> payload]; "absent" is a key that the *)
(* JSON object does not carry.  CodexCredentials instances are objects     *)
(* with identity: they live in `heap` and are referred to by index.        *)
(***************************************************************************)
EXTENDS Integers, Sequences, FiniteSets, TLC

VARIABLES
    now,        \* time.time(), in whole seconds
    heap,       \* the CodexCredentials objects allocated so far
    call,       \* per caller: the state of its ensure_valid_token / refresh call
    revoked,    \* refresh tokens the token endpoint no longer accepts
    overlapped, \* callers whose refresh ran while another refresh of the same record was in flight
    file,       \* the credential file handed to load_codex_credentials
    loaded,     \* the outcome of load_codex_credentials
    authorized, \* UserGateFilter.authorized_user_id
    update,     \* the Telegram update handed to UserGateFilter.filter
    verdict,    \* what UserGateFilter.filter returned for it
    handled     \* the updates that reached a handler

vars == <<now, heap, call, revoked, overlapped, file, loaded,
          authorized, update, verdict, handled>>
authVars == <<now, heap, call, revoked, overlapped>>
loadVars == <<file, loaded>>
gateVars == <<authorized, update, verdict, handled>>

----------------------------------------------------------------------------
(* Bounds of the model.                                                    *)

NCallers == 2
MaxTicks == 1
StartTime == 1000

Callers == 1..NCallers

----------------------------------------------------------------------------
(* Dynamically typed values.                                               *)

Absent == [t |-> "absent", v |-> 0]
JNull == [t |-> "null", v |-> 0]
JStr(s) == [t |-> "str", v |-> s]
JNum(n) == [t |-> "num", v |-> n]
JBool(b) == [t |-> "bool", v |-> IF b THEN 1 ELSE 0]
JList(n) == [t |-> "list", v |-> n]
JObj == [t |-> "obj", v |-> 1]
JEmptyObj == [t |-> "obj", v |-> 0]

\* Python truthiness, as used by `not x`.
Truthy(x) ==
    CASE x.t = "str" -> x.v # ""
      [] x.t = "num" -> x.v # 0
      [] x.t = "bool" -> x.v = 1
      [] x.t = "list" -> x.v > 0
      [] x.t = "obj" -> x.v > 0
      [] OTHER -> FALSE

\* dict.get(key): None when the key is absent.
Get(x) == IF x = Absent THEN JNull ELSE x

\* dict.get(key, default): the default only when the key is absent.
GetDefault(x, default) == IF x = Absent THEN default ELSE x

\* Seconds with millisecond fractions: the floats of the program.
Seconds(n) == [sec |-> n, milli |-> 0]
AddSeconds(t, n) == [sec |-> t.sec + n, milli |-> t.milli]
Millis(t) == t.sec * 1000 + t.milli
TimeGeq(a, b) == Millis(a) >= Millis(b)
TimeLess(a, b) == Millis(a) < Millis(b)

\* expires / 1000
DivThousand(ms) == [sec |-> ms \div 1000, milli |-> ms % 1000]

----------------------------------------------------------------------------
(* auth.py                                                                 *)

REFRESH_MARGIN_S == 300
CODEX_CLIENT_ID == "app_EMoamEEZ73f0CkXaXp7hrann"
DefaultExpiresIn == 3600

CodexCredentials(access, refresh, account, expires) ==
    [access_token |-> access, refresh_token |-> refresh,
     account_id |-> account, expires |-> expires]

\* time.time()
TimeNow == Seconds(now)

NoCredentials == CodexCredentials(Absent, Absent, Absent, Seconds(0))
EmptyBody == [access_token |-> Absent, refresh_token |-> Absent, expires_in |-> Absent]
NoRequest == [grant_type |-> "", client_id |-> "", refresh_token |-> Absent]
NoResponse == [status |-> 0, body |-> EmptyBody]
NoOutcome == [kind |-> "none", rec |-> 0]

IdleCall ==
    [pc |-> "idle", entry |-> "none", creds |-> 0, snapshot |-> NoCredentials,
     calledAt |-> 0, sent |-> 0, request |-> NoRequest, resp |-> NoResponse,
     ret |-> NoOutcome, retAt |-> 0]

\* time.time() + REFRESH_MARGIN_S >= creds.expires
NeedsRefresh_NoMargin(t, creds) == TimeGeq(t, creds.expires)
NeedsRefresh_Strict(t, creds) ==
    ~TimeGeq(creds.expires, AddSeconds(t, REFRESH_MARGIN_S))
NeedsRefresh(t, creds) == TimeGeq(AddSeconds(t, REFRESH_MARGIN_S), creds.expires)

\* resp.raise_for_status(): raises httpx.HTTPStatusError on an error status.
RaisesForStatus_Only4xx(status) == status >= 400 /\ status < 500
RaisesForStatus(status) == status >= 400

\* `if not access_token`
MissingAccessToken_OnlyNone(access_token) == access_token.t = "null"
MissingAccessToken(access_token) == ~Truthy(access_token)

\* time.time() + data.get("expires_in", 3600): a TypeError unless the value is a number.
ExpiresInOf(data) == GetDefault(data.expires_in, JNum(DefaultExpiresIn))

\* The CodexCredentials(...) built at the end of refresh_access_token.
RefreshedCredentials_KeepsRefresh(creds, data, t) ==
    CodexCredentials(Get(data.access_token), creds.refresh_token,
                     creds.account_id, AddSeconds(t, ExpiresInOf(data).v))
RefreshedCredentials(creds, data, t) ==
    CodexCredentials(Get(data.access_token),
                     GetDefault(data.refresh_token, creds.refresh_token),
                     creds.account_id,
                     AddSeconds(t, ExpiresInOf(data).v))

\* What refresh_access_token does with the endpoint's answer.
RefreshOutcomeKind(response) ==
    IF RaisesForStatus(response.status) THEN "HTTPStatusError"
    ELSE IF MissingAccessToken(Get(response.body.access_token)) THEN "ValueError"
    ELSE IF ExpiresInOf(response.body).t # "num" THEN "TypeError"
    ELSE "record"

\* The token endpoint: an external service.  It rejects a refresh token it has
\* rotated away, and otherwise answers with a server error or with a success
\* whose body is any of Bodies.
Bodies ==
    { [access_token |-> a, refresh_token |-> Absent, expires_in |-> Absent] :
        a \in {Absent, JStr("")} }
    \cup
    { [access_token |-> JStr("A1"), refresh_token |-> r, expires_in |-> e] :
        r \in {Absent, JNull, JStr(""), JStr("R1")},
        e \in {Absent, JNull, JNum(REFRESH_MARGIN_S), JNum(REFRESH_MARGIN_S + 1)} }

EndpointAnswers(request) ==
    IF request.refresh_token \in revoked
    THEN { [status |-> 401, body |-> EmptyBody] }
    ELSE { [status |-> 500, body |-> EmptyBody] }
         \cup { [status |-> 200, body |-> b] : b \in Bodies }

Rotates(request, response) ==
    /\ response.status = 200
    /\ response.body.refresh_token.t = "str"
    /\ response.body.refresh_token.v # ""
    /\ response.body.refresh_token # request.refresh_token

\* refresh_access_token up to the await: the POST is sent.
SendRefresh_SingleFlight(c, r, how) ==
    LET others == {d \in Callers \ {c} : call[d].pc = "awaiting" /\ call[d].creds = r}
    IN  /\ call' = [call EXCEPT ![c] =
                [IdleCall EXCEPT !.pc = "awaiting", !.entry = how, !.creds = r,
                                 !.snapshot = heap[r], !.calledAt = now,
                                 !.sent = IF others = {} THEN 1 ELSE 0,
                                 !.request = [grant_type |-> "refresh_token",
                                              client_id |-> CODEX_CLIENT_ID,
                                              refresh_token |-> heap[r].refresh_token]]]
        /\ overlapped' = IF others = {} THEN overlapped ELSE overlapped \cup others \cup {c}
        /\ UNCHANGED <<now, heap, revoked>>
SendRefresh(c, r, how) ==
    LET others == {d \in Callers \ {c} : call[d].pc = "awaiting" /\ call[d].creds = r}
    IN  /\ call' = [call EXCEPT ![c] =
                [IdleCall EXCEPT !.pc = "awaiting", !.entry = how, !.creds = r,
                                 !.snapshot = heap[r], !.calledAt = now,
                                 !.sent = 1,
                                 !.request = [grant_type |-> "refresh_token",
                                              client_id |-> CODEX_CLIENT_ID,
                                              refresh_token |-> heap[r].refresh_token]]]
        /\ overlapped' = IF others = {} THEN overlapped ELSE overlapped \cup others \cup {c}
        /\ UNCHANGED <<now, heap, revoked>>

\* ensure_valid_token(creds), with creds any credentials object that exists.
EnsureValidToken(c, r) ==
    /\ call[c].pc = "idle"
    /\ r \in 1..Len(heap)
    /\ IF NeedsRefresh(TimeNow, heap[r])
       THEN SendRefresh(c, r, "ensure")
       ELSE /\ call' = [call EXCEPT ![c] =
                    [IdleCall EXCEPT !.pc = "returned", !.entry = "ensure", !.creds = r,
                                     !.snapshot = heap[r], !.calledAt = now,
                                     !.ret = [kind |-> "record", rec |-> r],
                                     !.retAt = now]]
            /\ UNCHANGED <<now, heap, revoked, overlapped>>
    /\ UNCHANGED <<loadVars, gateVars>>

\* refresh_access_token(creds) called directly.
RefreshAccessToken(c, r) ==
    /\ call[c].pc = "idle"
    /\ r \in 1..Len(heap)
    /\ SendRefresh(c, r, "refresh")
    /\ UNCHANGED <<loadVars, gateVars>>

\* The endpoint answers and refresh_access_token runs to its end.
FinishRefresh(c, response) ==
    LET kind == RefreshOutcomeKind(response)
        creds == heap[call[c].creds]
    IN  /\ heap' = IF kind = "record"
                   THEN Append(heap, RefreshedCredentials(creds, response.body, TimeNow))
                   ELSE heap
        /\ call' = [call EXCEPT ![c].pc = "returned",
                                ![c].resp = response,
                                ![c].ret = [kind |-> kind,
                                            rec |-> IF kind = "record" THEN Len(heap) + 1 ELSE 0],
                                ![c].retAt = now]

Respond(c) ==
    /\ call[c].pc = "awaiting"
    /\ \E response \in EndpointAnswers(call[c].request) :
          /\ revoked' = IF Rotates(call[c].request, response)
                        THEN revoked \cup {call[c].request.refresh_token}
                        ELSE revoked
          /\ FinishRefresh(c, response)
    /\ UNCHANGED <<now, overlapped, loadVars, gateVars>>

\* The clock advances.
Tick ==
    /\ now < StartTime + MaxTicks
    /\ now' = now + 1
    /\ UNCHANGED <<heap, call, revoked, overlapped, loadVars, gateVars>>

----------------------------------------------------------------------------
(* auth.py: load_codex_credentials                                         *)

\* The credential file: whether the path exists, whether its text is JSON,
\* the top-level value, the value under "openai-codex" with its "type",
\* "access", "refresh" and "expires" members, and the value under
\* "https://api.openai.com/auth" with its "chatgpt_account_id" member.
CredentialFile(exists, parses, top, codex, type, access, refresh, expires, auth, account) ==
    [exists |-> exists, parses |-> parses, top |-> top, codex |-> codex,
     type |-> type, access |-> access, refresh |-> refresh, expires |-> expires,
     auth |-> auth, account |-> account]

MissingFile ==
    CredentialFile(FALSE, FALSE, Absent, Absent, Absent, Absent, Absent, Absent, Absent, Absent)
UnparseableFile ==
    CredentialFile(TRUE, FALSE, Absent, Absent, Absent, Absent, Absent, Absent, Absent, Absent)

AuthVariants ==
    { <<Absent, Absent>>, <<JNull, Absent>>, <<JStr("x"), Absent>>,
      <<JEmptyObj, Absent>>, <<JObj, Absent>>, <<JObj, JStr("acct-123")>> }

Files ==
    {MissingFile, UnparseableFile}
    \cup
    { CredentialFile(TRUE, TRUE, top, Absent, Absent, Absent, Absent, Absent, Absent, Absent) :
        top \in {JNull, JStr("x"), JList(0), JList(1)} }
    \cup
    { CredentialFile(TRUE, TRUE, JObj, codex, Absent, Absent, Absent, Absent, a[1], a[2]) :
        codex \in {Absent, JNull, JStr(""), JStr("sk-123"), JList(0), JList(1), JEmptyObj},
        a \in AuthVariants }
    \cup
    { CredentialFile(TRUE, TRUE, JObj, JObj, type, access, refresh, expires, a[1], a[2]) :
        type \in {Absent, JStr("oauth"), JStr("api")},
        access \in {Absent, JStr(""), JStr("tok"), JNum(5)},
        refresh \in {Absent, JStr(""), JStr("rt")},
        expires \in {Absent, JNull, JStr("1301000"), JBool(TRUE),
                     JNum(StartTime * 1000), JNum(StartTime * 1000 + 500)},
        a \in AuthVariants }

\* Only a dict has .get; on any other value the attribute lookup raises.
HasGet(x) == x.t = "obj"

\* isinstance(expires, (int, float)); bool is a subclass of int.
IsIntOrFloat(x) == x.t \in {"num", "bool"}

NotLoaded == [kind |-> "none", rec |-> 0, warned |-> FALSE]
LoadedAbsent(warned) == [kind |-> "absent", rec |-> 0, warned |-> warned]

\* What load_codex_credentials(path) returns or raises, and the record it builds.
LoadKind(f) ==
    IF ~f.exists THEN "absent"
    ELSE IF ~f.parses THEN "absent-warned"
    ELSE IF ~HasGet(f.top) THEN "AttributeError"
    ELSE IF ~Truthy(Get(f.codex)) THEN "absent"
    ELSE IF ~HasGet(f.codex) THEN "AttributeError"
    ELSE IF Get(f.type) # JStr("oauth") THEN "absent"
    ELSE IF ~Truthy(Get(f.access)) \/ ~Truthy(Get(f.refresh)) THEN "absent-warned"
    ELSE IF ~IsIntOrFloat(Get(f.expires)) THEN "absent-warned"
    ELSE IF ~HasGet(GetDefault(f.auth, JEmptyObj)) THEN "AttributeError"
    ELSE "record"

LoadedCredentials(f) ==
    CodexCredentials(Get(f.access), Get(f.refresh),
                     GetDefault(f.account, JStr("")),
                     DivThousand(Get(f.expires).v))

LoadCodexCredentials ==
    /\ loaded = NotLoaded
    /\ LET kind == LoadKind(file)
       IN  /\ heap' = IF kind = "record" THEN Append(heap, LoadedCredentials(file)) ELSE heap
           /\ loaded' = CASE kind = "record" ->
                                [kind |-> "record", rec |-> Len(heap) + 1, warned |-> FALSE]
                          [] kind = "absent" -> LoadedAbsent(FALSE)
                          [] kind = "absent-warned" -> LoadedAbsent(TRUE)
                          [] OTHER -> [kind |-> kind, rec |-> 0, warned |-> FALSE]
    /\ UNCHANGED <<now, call, revoked, overlapped, file, gateVars>>

----------------------------------------------------------------------------
(* security.py: UserGateFilter, and its wiring in __main__.py              *)

AuthorizedUserId == 123456789
UnauthorizedUserId == 987654321
MaxHandled == 3

NoUpdate == [effective_user |-> JNull, effective_chat |-> JNull]

\* effective_user is None or a user with an id; effective_chat is None or a
\* chat with a type.
Updates ==
    { [effective_user |-> u, effective_chat |-> ch] :
        u \in {JNull, JNum(AuthorizedUserId), JNum(UnauthorizedUserId)},
        ch \in {JNull, JStr("private"), JStr("group"), JStr("supergroup"), JStr("channel")} }

\* UserGateFilter.filter(update)
Filter(authorized_user_id, u) ==
    IF u.effective_chat # JNull /\ u.effective_chat.v # "private" THEN FALSE
    ELSE IF u.effective_user = JNull \/ u.effective_user.v # authorized_user_id THEN FALSE
    ELSE TRUE

\* An update arrives from polling.
Poll(u) ==
    /\ verdict # "pending"
    /\ handled < MaxHandled
    /\ update' = u
    /\ verdict' = "pending"
    /\ UNCHANGED <<authVars, loadVars, authorized, handled>>

\* The gate decides; an update it passes reaches its handler.
Dispatch ==
    /\ verdict = "pending"
    /\ verdict' = IF Filter(authorized, update) THEN "pass" ELSE "reject"
    /\ handled' = IF Filter(authorized, update) THEN handled + 1 ELSE handled
    /\ UNCHANGED <<authVars, loadVars, authorized, update>>

----------------------------------------------------------------------------
(* Specifications.                                                         *)

\* The records a caller starts from are those load_codex_credentials can build.
InitialExpiresMs ==
    { (StartTime - 10) * 1000,
      (StartTime + REFRESH_MARGIN_S) * 1000,
      (StartTime + REFRESH_MARGIN_S) * 1000 + 500,
      (StartTime + 4000) * 1000 }

GateIdle ==
    /\ authorized = AuthorizedUserId
    /\ update = NoUpdate
    /\ verdict = "none"
    /\ handled = 0

AuthIdle ==
    /\ now = StartTime
    /\ heap = << >>
    /\ call = [c \in Callers |-> IdleCall]
    /\ revoked = {}
    /\ overlapped = {}

\* The token lifecycle: callers refresh the credentials concurrently.
Init ==
    /\ now = StartTime
    /\ \E account \in {JStr(""), JStr("acct-123")}, ms \in InitialExpiresMs :
          heap = <<CodexCredentials(JStr("A0"), JStr("R0"), account, DivThousand(ms))>>
    /\ call = [c \in Callers |-> IdleCall]
    /\ revoked = {}
    /\ overlapped = {}
    /\ file = MissingFile
    /\ loaded = NotLoaded
    /\ GateIdle

Next ==
    \/ \E c \in Callers, r \in 1..Len(heap) : EnsureValidToken(c, r)
    \/ \E c \in Callers, r \in 1..Len(heap) : RefreshAccessToken(c, r)
    \/ \E c \in Callers : Respond(c)
    \/ Tick

Spec == Init /\ [][Next]_vars

\* Loading: one credential file is read.
InitLoad ==
    /\ AuthIdle
    /\ file \in Files
    /\ loaded = NotLoaded
    /\ GateIdle

NextLoad == LoadCodexCredentials

SpecLoad == InitLoad /\ [][NextLoad]_vars

\* The gate: updates arrive and are filtered.
InitGate ==
    /\ AuthIdle
    /\ file = MissingFile
    /\ loaded = NotLoaded
    /\ authorized \in {AuthorizedUserId, UnauthorizedUserId}
    /\ update = NoUpdate
    /\ verdict = "none"
    /\ handled = 0

NextGate ==
    \/ \E u \in Updates : Poll(u)
    \/ Dispatch

SpecGate == InitGate /\ [][NextGate]_vars

----------------------------------------------------------------------------
(* Properties.                                                             *)

Returned(c) == call[c].pc = "returned"
IsRecord(c) == Returned(c) /\ call[c].ret.kind = "record"
Refreshed(c) == IsRecord(c) /\ call[c].sent = 1
SuccessStatus(status) == status \in 200..299

\* now + REFRESH_MARGIN_S < expires, at time t
FreshAt(t, creds) == TimeLess(Seconds(t + REFRESH_MARGIN_S), creds.expires)

\* The expires_in a response grants: its own, or 3600 when it omits one.
GrantedSeconds(body) ==
    IF body.expires_in = Absent THEN DefaultExpiresIn ELSE body.expires_in.v

\* C1 as stated: every record ensure_valid_token returns, unchanged or
\* refreshed, has more than the refresh margin left at the time of return.
C1_ReturnedAlwaysFresh ==
    \A c \in Callers :
        (call[c].entry = "ensure" /\ IsRecord(c))
            => FreshAt(call[c].retAt, heap[call[c].ret.rec])

\* C1 amended: a record ensure_valid_token returns has more than the margin
\* left exactly when it is the input returned unchanged or a refreshed record
\* whose granted lifetime (expires_in, or 3600) exceeds the margin.
C1_FreshIffGrantExceedsMargin ==
    \A c \in Callers :
        (call[c].entry = "ensure" /\ IsRecord(c))
            => (FreshAt(call[c].retAt, heap[call[c].ret.rec])
                <=> (call[c].sent = 0
                     \/ GrantedSeconds(call[c].resp.body) > REFRESH_MARGIN_S))

C1_Witness ==
    \E c \in Callers :
        /\ call[c].entry = "ensure"
        /\ Refreshed(c)
        /\ call[c].resp.body.expires_in = JNum(REFRESH_MARGIN_S)
        /\ ~FreshAt(call[c].retAt, heap[call[c].ret.rec])

\* C2: one call of ensure_valid_token sends no request and returns the very
\* same record when now + 300 < expires, and sends exactly one request when
\* now + 300 >= expires (equality included), whatever the answer is.
C2_ZeroOrOneRequest ==
    \A c \in Callers :
        call[c].entry = "ensure" =>
            IF Millis(call[c].snapshot.expires) > (call[c].calledAt + 300) * 1000
            THEN /\ call[c].sent = 0
                 /\ Returned(c)
                 /\ call[c].ret = [kind |-> "record", rec |-> call[c].creds]
                 /\ call[c].resp = NoResponse
            ELSE call[c].sent = 1

C2_Witness ==
    \E c \in Callers :
        /\ call[c].entry = "ensure"
        /\ Returned(c)
        /\ Millis(call[c].snapshot.expires) = (call[c].calledAt + 300) * 1000
        /\ call[c].sent = 1

\* C3 as stated: every record that exists has a non-empty access_token and a
\* non-empty refresh_token.
C3_TokensNonEmpty ==
    \A i \in 1..Len(heap) :
        /\ heap[i].access_token.t = "str" /\ heap[i].access_token.v # ""
        /\ heap[i].refresh_token.t = "str" /\ heap[i].refresh_token.v # ""

\* C5: a refresh answered with a non-success status ends in the transport
\* error, returns no record, has sent its one request and no other, and
\* leaves every existing record, the input included, as it was.
C5_ErrorStatusFails ==
    [][\A c \in Callers :
          (call[c].pc = "awaiting" /\ call'[c].pc = "returned"
           /\ ~SuccessStatus(call'[c].resp.status))
              => /\ call'[c].ret = [kind |-> "HTTPStatusError", rec |-> 0]
                 /\ call'[c].sent = 1
                 /\ heap' = heap
                 /\ heap[call[c].creds] = call[c].snapshot]_vars

C5_Witness ==
    \E c \in Callers :
        /\ Returned(c)
        /\ call[c].resp.status = 500
        /\ call[c].ret.kind = "HTTPStatusError"
        /\ call[c].entry = "ensure"

\* C6: a success answer whose body has no access_token, or an empty one, ends
\* in the malformed-response error, which is not the transport error, and in
\* no record.
C6_MissingAccessTokenFails ==
    \A c \in Callers :
        (Returned(c) /\ SuccessStatus(call[c].resp.status)
         /\ call[c].resp.body.access_token \in {Absent, JNull, JStr("")})
            => /\ call[c].ret = [kind |-> "ValueError", rec |-> 0]
               /\ \A i \in 1..Len(heap) :
                     heap[i].access_token # JStr("") /\ heap[i].access_token # JNull

C6_Witness ==
    \E c \in Callers :
        /\ Returned(c)
        /\ call[c].resp.status = 200
        /\ call[c].resp.body.access_token = JStr("")
        /\ call[c].ret.kind = "ValueError"

\* C7: a success answer carrying an access_token and an omitted or numeric
\* expires_in yields a record, and that record has the response's
\* access_token, the response's refresh_token when the field is there and the
\* input's otherwise, the input's account_id, and expires equal to the time at
\* completion plus expires_in, or plus 3600 when expires_in is omitted.
C7_RefreshedFields ==
    \A c \in Callers :
        (Returned(c) /\ call[c].sent = 1 /\ SuccessStatus(call[c].resp.status)
         /\ call[c].resp.body.access_token.t = "str"
         /\ call[c].resp.body.access_token.v # ""
         /\ call[c].resp.body.expires_in.t \in {"absent", "num"})
            => /\ call[c].ret.kind = "record"
               /\ call[c].ret.rec \in 1..Len(heap)
               /\ LET new == heap[call[c].ret.rec]
                      old == call[c].snapshot
                      body == call[c].resp.body
                  IN  /\ new.access_token = body.access_token
                      /\ new.refresh_token =
                            (IF body.refresh_token = Absent
                             THEN old.refresh_token ELSE body.refresh_token)
                      /\ new.account_id = old.account_id
                      /\ new.expires = Seconds(call[c].retAt + GrantedSeconds(body))

C7_Witness ==
    \E c \in Callers :
        /\ Refreshed(c)
        /\ call[c].resp.body.refresh_token = Absent
        /\ call[c].resp.body.expires_in = Absent
        /\ heap[call[c].ret.rec].refresh_token = JStr("R0")
        /\ heap[call[c].ret.rec].account_id = JStr("acct-123")
        /\ heap[call[c].ret.rec].expires = Seconds(call[c].retAt + 3600)

\* C10 as stated: when callers invoke ensure_valid_token on the same expiring
\* record concurrently, every one of the calls that the endpoint answers (no
\* server fault, no malformed body) completes with a new record.
C10_EveryConcurrentCallSucceeds ==
    \A c \in overlapped :
        (Returned(c) /\ call[c].entry = "ensure" /\ call[c].resp.status # 500
         /\ (call[c].resp.status = 200 =>
                /\ Truthy(call[c].resp.body.access_token)
                /\ call[c].resp.body.expires_in.t \in {"absent", "num"}))
            => call[c].ret.kind = "record"

\* C10 amended: there is no coalescing: every call that finds the record
\* expiring sends its own request presenting the input record's
\* refresh_token; a call completes with a new record of its own exactly when
\* its answer is a success carrying an access_token and an omitted or numeric
\* expires_in, and fails otherwise, with the transport error when the
\* endpoint rejects the request (as it does for a refresh token that an
\* earlier answer rotated away); the input record keeps its four field
\* values throughout.
C10_NoCoalescing ==
    \A c \in Callers :
        (call[c].pc # "idle"
         /\ (call[c].entry = "refresh"
             \/ ~FreshAt(call[c].calledAt, call[c].snapshot)))
            => /\ call[c].sent = 1
               /\ call[c].request = [grant_type |-> "refresh_token",
                                     client_id |-> CODEX_CLIENT_ID,
                                     refresh_token |-> call[c].snapshot.refresh_token]
               /\ heap[call[c].creds] = call[c].snapshot
               /\ Returned(c) =>
                    /\ call[c].ret.kind = "record"
                         <=> /\ call[c].resp.status = 200
                             /\ Truthy(call[c].resp.body.access_token)
                             /\ call[c].resp.body.expires_in.t \in {"absent", "num"}
                    /\ call[c].resp.status >= 400 => call[c].ret.kind = "HTTPStatusError"
                    /\ call[c].ret.kind = "record" =>
                         /\ call[c].ret.rec # call[c].creds
                         /\ \A d \in Callers \ {c} :
                               Refreshed(d) => call[d].ret.rec # call[c].ret.rec

C10_Witness ==
    \E c, d \in overlapped :
        /\ c # d
        /\ call[c].creds = call[d].creds
        /\ call[c].entry = "ensure" /\ call[d].entry = "ensure"
        /\ Refreshed(c)
        /\ heap[call[c].ret.rec].refresh_token = JStr("R1")
        /\ Returned(d)
        /\ call[d].resp.status = 401
        /\ call[d].ret.kind = "HTTPStatusError"
        /\ heap[call[d].creds] = call[d].snapshot

\* C4 as stated: for an existing file whose content is unparseable or has the
\* wrong shape, load_codex_credentials returns absent and raises nothing.
WellFormedFile(f) ==
    /\ f.exists /\ f.parses
    /\ f.top.t = "obj"
    /\ f.codex = JObj
    /\ f.type = JStr("oauth")
    /\ f.access.t = "str" /\ f.access.v # ""
    /\ f.refresh.t = "str" /\ f.refresh.v # ""
    /\ f.expires.t = "num"
    /\ f.auth.t \in {"absent", "obj"}
    /\ f.account.t \in {"absent", "str"}

C4_MalformedNeverRaises ==
    (loaded # NotLoaded /\ file.exists /\ ~WellFormedFile(file))
        => loaded.kind = "absent"

\* C8 as stated: load_codex_credentials returns a record exactly when the file
\* exists, parses, has "openai-codex" with type "oauth", non-empty access and
\* refresh and a numeric expires; the record carries the file's values, with
\* account_id "" when the identity key is omitted and expires the file's
\* milliseconds divided by 1000; in every other case it returns absent.
HasOAuthEntry(f) ==
    /\ f.exists /\ f.parses
    /\ f.codex.t = "obj" /\ f.type = JStr("oauth")
    /\ f.access.t = "str" /\ f.access.v # ""
    /\ f.refresh.t = "str" /\ f.refresh.v # ""
    /\ f.expires.t = "num"

C8_RecordExactlyWhenOAuth ==
    loaded # NotLoaded =>
        IF HasOAuthEntry(file)
        THEN /\ loaded.kind = "record"
             /\ loaded.rec \in 1..Len(heap)
             /\ heap[loaded.rec].access_token = file.access
             /\ heap[loaded.rec].refresh_token = file.refresh
             /\ heap[loaded.rec].account_id =
                    (IF file.account = Absent THEN JStr("") ELSE file.account)
             /\ Millis(heap[loaded.rec].expires) = file.expires.v
        ELSE loaded.kind = "absent"

\* C9 as stated: the gate passes an update only if it has an effective user
\* whose id is the authorized id and an effective chat of type "private".
C9_PassOnlyAuthorizedPrivate ==
    verdict = "pass" =>
        /\ update.effective_user = JNum(authorized)
        /\ update.effective_chat = JStr("private")

====
